---- MODULE Spec2Model ----
(***************************************************************************)
(* Lifecycle state machine of ros2_ouster::OusterDriver                    *)
(* (ros2_ouster/src/ouster_driver.cpp): the node's parameters, the five    *)
(* lifecycle publishers, the two services, the sensor handle, the static   *)
(* transform broadcaster and the periodic processData timer, driven by the *)
(* lifecycle transitions, the service callbacks and the timer callback.    *)
(***************************************************************************)
EXTENDS Naturals, Sequences, FiniteSets, TLC

\* Number of timer objects that can be alive at once (the armed one plus
\* those kept alive by a callback that is still executing).
MaxTimers == 2

\* ------------------------------------------------------------------------
\* Parameters (rclcpp parameter store of the node)

\* declare_parameter defaults, ouster_driver.cpp:46-47
DefaultImuPort == 7503
DefaultLidarPort == 7502

\* names declared by the constructor
DeclaredNames ==
    {"lidar_ip", "computer_ip", "imu_port", "lidar_port", "lidar_mode",
     "sensor_frame", "laser_frame", "imu_frame"}

\* names read by broadcastStaticTransforms
TransformParamNames == {"laser_sensor_frame", "laser_data_frame", "imu_data_frame"}

ParamNames == DeclaredNames \cup TransformParamNames

\* names read into ros2_ouster::Configuration by onConfigure and resetService
ConfigParamNames ==
    {"lidar_ip", "computer_ip", "imu_port", "lidar_port", "lidar_mode"}

\* every name the driver asks the node for
ReadNames == ConfigParamNames \cup TransformParamNames

\* a rclcpp::Parameter: its type tag and its string / integer payload
NotSetParam == [type |-> "NOT_SET", s |-> "", i |-> 0]
StringParam(v) == [type |-> "STRING", s |-> v, i |-> 0]
IntParam(v) == [type |-> "INTEGER", s |-> "", i |-> v]

LidarModes == {"512x10", "1024x10"}

\* values an operator of the node may give to the frame parameters
CustomFrames ==
    [laser_sensor_frame |-> "os1_sensor",
     laser_data_frame |-> "os1_lidar",
     imu_data_frame |-> "os1_imu"]

PubNames == {"range_im_pub", "intensity_im_pub", "noise_im_pub", "pc_pub", "imu_pub"}

\* calibrations a sensor can report in its handshake
Calibs == {1, 2}

\* Number of datagrams the sensor sends, on its two ports together.
MaxDatagrams == 3

\* Highest measurement index of a lidar column (columns per revolution - 1).
MaxColumn == 1

Columns == 0..MaxColumn

\* the publishers fed from a completed Frame
FramePubNames == {"range_im_pub", "intensity_im_pub", "noise_im_pub", "pc_pub"}

VARIABLES
    state,             \* lifecycle state of the node
    allow_undeclared,  \* NodeOptions::allow_undeclared_parameters
    declared,          \* names of the declared parameters
    params,            \* parameter store: name -> rclcpp::Parameter
    pubs,              \* _range_im_pub .. _imu_pub: "null", "inactive", "active"
    srv,               \* _reset_srv, _metadata_srv: created or not
    sensor,            \* _sensor
    tf_b,              \* _tf_b
    process_timer,     \* _process_timer: 0 (null) or the id of the timer
    inFlight,          \* timers whose processData callback is executing
    resetCall,         \* the reset service request being served
    metaCall,          \* the get_metadata service request being served
    device,            \* the physical sensor on the network
    completedMetadata, \* Metadata of the last completed configure / reset
    proc,              \* "running", "crashed" or "exited"
    lidarRx,           \* column indices of the lidar datagrams received
    imuRx,             \* number of IMU datagrams received
    lidarDue,          \* lidar datagrams that were waiting for a cycle in Active
    imuDue,            \* IMU datagrams that were waiting for a cycle in Active
    published          \* messages handed to each publisher

\* the sensor's datagrams and what became of them
dataVars == <<lidarRx, imuRx, lidarDue, imuDue, published>>

vars ==
    <<state, allow_undeclared, declared, params, pubs, srv, sensor, tf_b,
      process_timer, inFlight, resetCall, metaCall, device,
      completedMetadata, proc, dataVars>>

\* ------------------------------------------------------------------------
\* Data

NoConfig ==
    [lidar_ip |-> "", computer_ip |-> "", imu_port |-> 0, lidar_port |-> 0,
     lidar_mode |-> ""]

\* a default-constructed ros2_ouster::Metadata
NoMetadata ==
    [lidar_mode |-> "", lidar_to_sensor_transform |-> 0,
     imu_to_sensor_transform |-> 0]

\* the Metadata a sensor of calibration c reports for configuration cfg
HandshakeMetadata(cfg, c) ==
    [lidar_mode |-> cfg.lidar_mode,
     lidar_to_sensor_transform |-> 100 + c,
     imu_to_sensor_transform |-> 200 + c]

NullSensor == [held |-> FALSE, config |-> NoConfig, metadata |-> NoMetadata]

\* std::make_shared<SensorInterface>(OS1::OS1Sensor())
NewSensor == [held |-> TRUE, config |-> NoConfig, metadata |-> NoMetadata]

NullTfb == [held |-> FALSE, sent |-> <<>>]

\* std::make_unique<tf2_ros::StaticTransformBroadcaster>(...)
NewTfb == [held |-> TRUE, sent |-> <<>>]

NoTimer == 0

TimerIds == 1..MaxTimers

\* an ouster_msgs::msg::Metadata that was never filled in
EmptyMetadataMsg ==
    [msg |-> "ouster_msgs/Metadata", lidar_mode |-> "",
     lidar_to_sensor_transform |-> 0, imu_to_sensor_transform |-> 0]

IdleCall == [st |-> "idle", cfg |-> NoConfig]

IdleMetaCall == [st |-> "idle", response |-> EmptyMetadataMsg]

\* ------------------------------------------------------------------------
\* Parameter reads

\* get_parameter(name).as_string() / as_int() raises on an undeclared name
\* and on a parameter of another type
ThrowsAsString(name) == name \notin declared \/ params[name].type # "STRING"

ThrowsAsInt(name) == name \notin declared \/ params[name].type # "INTEGER"

\* the five reads that fill ros2_ouster::Configuration
ConfigReadThrows ==
    \/ ThrowsAsString("lidar_ip")
    \/ ThrowsAsString("computer_ip")
    \/ ThrowsAsInt("imu_port")
    \/ ThrowsAsInt("lidar_port")
    \/ ThrowsAsString("lidar_mode")

BuildConfig ==
    [lidar_ip |-> params["lidar_ip"].s,
     computer_ip |-> params["computer_ip"].s,
     imu_port |-> params["imu_port"].i,
     lidar_port |-> params["lidar_port"].i,
     lidar_mode |-> params["lidar_mode"].s]

\* ------------------------------------------------------------------------
\* Sensor (SensorInterface)

\* SensorInterface::configure / reset: the handshake with the device; it
\* raises when the device cannot be reached and then leaves the sensor as
\* it was, otherwise Configuration and Metadata are replaced as a whole
HandshakeFails == ~device.reachable

SensorHandshake(s, cfg) ==
    [s EXCEPT !.config = cfg, !.metadata = HandshakeMetadata(cfg, device.calib)]

\* SensorInterface::getMetadata: a snapshot of the current Metadata
SensorGetMetadata(s) == s.metadata

\* toMsg(Metadata): field-by-field copy into ouster_msgs::msg::Metadata
MetadataToMsg(m) ==
    [msg |-> "ouster_msgs/Metadata",
     lidar_mode |-> m.lidar_mode,
     lidar_to_sensor_transform |-> m.lidar_to_sensor_transform,
     imu_to_sensor_transform |-> m.imu_to_sensor_transform]

\* toMsg(transform, frame, child_frame, time): a TransformStamped
TransformToMsg(tf, frame, child_frame) ==
    [frame_id |-> frame, child_frame_id |-> child_frame, transform |-> tf]

\* ------------------------------------------------------------------------
\* The driver's members, and the callbacks as functions of them

\* the members as they are now; raised: the callback threw
Members ==
    [pubs |-> pubs, srv |-> srv, sensor |-> sensor, tf_b |-> tf_b,
     process_timer |-> process_timer, raised |-> FALSE]

AllPubs(v) == [p \in PubNames |-> v]

\* OusterDriver::broadcastStaticTransforms on broadcaster b and sensor s:
\* the broadcaster afterwards, and whether a parameter read raised
broadcastStaticTransforms(b, s) ==
    IF \/ ThrowsAsString("laser_sensor_frame")
       \/ ThrowsAsString("laser_data_frame")
       \/ ThrowsAsString("imu_data_frame")
    THEN [tf_b |-> b, raised |-> TRUE]
    ELSE LET laser_sensor_frame == params["laser_sensor_frame"].s
             laser_data_frame == params["laser_data_frame"].s
             imu_data_frame == params["imu_data_frame"].s
             mdata == SensorGetMetadata(s)
             transforms ==
                 <<TransformToMsg(mdata.imu_to_sensor_transform,
                                  laser_sensor_frame, imu_data_frame),
                   TransformToMsg(mdata.lidar_to_sensor_transform,
                                  laser_sensor_frame, laser_data_frame)>>
         IN  IF b.held
             THEN [tf_b |-> [b EXCEPT !.sent = Append(@, transforms)],
                   raised |-> FALSE]
             ELSE [tf_b |-> b, raised |-> FALSE]

\* onConfigure carrying on after a handshake the sensor did not answer
onConfigure_IgnoresHandshakeFailure ==
    IF ConfigReadThrows
    THEN [Members EXCEPT !.raised = TRUE]
    ELSE LET created ==
                 [Members EXCEPT !.pubs = AllPubs("inactive"),
                                 !.srv = [reset |-> TRUE, get_metadata |-> TRUE],
                                 !.sensor = NewSensor]
         IN  IF HandshakeFails
             THEN created
             ELSE LET s == SensorHandshake(NewSensor, BuildConfig)
                      b == broadcastStaticTransforms(NewTfb, s)
                  IN  [created EXCEPT !.sensor = s, !.tf_b = b.tf_b,
                                      !.raised = b.raised]

\* OusterDriver::onConfigure
onConfigure ==
    IF ConfigReadThrows
    THEN [Members EXCEPT !.raised = TRUE]
    ELSE LET created ==
                 [Members EXCEPT !.pubs = AllPubs("inactive"),
                                 !.srv = [reset |-> TRUE, get_metadata |-> TRUE],
                                 !.sensor = NewSensor]
         IN  IF HandshakeFails
             THEN [created EXCEPT !.raised = TRUE]
             ELSE LET s == SensorHandshake(NewSensor, BuildConfig)
                      b == broadcastStaticTransforms(NewTfb, s)
                  IN  [created EXCEPT !.sensor = s, !.tf_b = b.tf_b,
                                      !.raised = b.raised]

\* a timer object that is not alive
FreshTimers == TimerIds \ (inFlight \cup {process_timer})

\* OusterDriver::onActivate
onActivate ==
    [Members EXCEPT !.pubs = AllPubs("active"),
                    !.process_timer = CHOOSE t \in FreshTimers : TRUE]

\* OusterDriver::onError
onError == Members

\* onDeactivate also closing the sensor connection
onDeactivate_ReleasesSensor ==
    [Members EXCEPT !.pubs = AllPubs("inactive"), !.process_timer = NoTimer,
                    !.sensor = NullSensor]

\* OusterDriver::onDeactivate
onDeactivate ==
    [Members EXCEPT !.pubs = AllPubs("inactive"), !.process_timer = NoTimer]

\* onCleanup without _sensor.reset()
onCleanup_KeepsSensor ==
    [Members EXCEPT !.pubs = AllPubs("null"), !.tf_b = NullTfb]

\* OusterDriver::onCleanup
onCleanup ==
    [Members EXCEPT !.pubs = AllPubs("null"), !.sensor = NullSensor,
                    !.tf_b = NullTfb]

\* OusterDriver::onShutdown
onShutdown == Members

\* the members become those a callback left
Apply(r) ==
    /\ pubs' = r.pubs
    /\ srv' = r.srv
    /\ sensor' = r.sensor
    /\ tf_b' = r.tf_b
    /\ process_timer' = r.process_timer

\* LifecycleInterface::isActive
isActive == state = "Active"

\* a reset call executing inside the sensor loses its object when _sensor
\* is released or replaced
OrphanCall(c) == IF c.st = "running" THEN [c EXCEPT !.st = "orphaned"] ELSE c

\* ------------------------------------------------------------------------
\* Initial state: the node as the constructor leaves it

\* the constructor's try block: declare_parameter raises only for a name that
\* is declared already, which is the case when the node options declare the
\* parameter overrides and an address was given as one; catch (...) then
\* logs and calls exit(-1). A name without a value is declared NOT_SET.
ConstructorExits(declare_overrides, lidar_ip, computer_ip) ==
    declare_overrides /\ (lidar_ip # NotSetParam \/ computer_ip # NotSetParam)

Init ==
    /\ state = "Unconfigured"
    /\ allow_undeclared \in BOOLEAN
    /\ declared = DeclaredNames
    /\ \E lidar_ip \in {NotSetParam, StringParam("10.5.5.87")},
          computer_ip \in {NotSetParam, StringParam("10.5.5.1")},
          declare_overrides \in BOOLEAN :
          /\ params =
              [n \in ParamNames |->
                  CASE n = "lidar_ip" -> lidar_ip
                    [] n = "computer_ip" -> computer_ip
                    [] n = "imu_port" -> IntParam(DefaultImuPort)
                    [] n = "lidar_port" -> IntParam(DefaultLidarPort)
                    [] n = "lidar_mode" -> StringParam("512x10")
                    [] n = "sensor_frame" -> StringParam("laser_sensor_frame")
                    [] n = "laser_frame" -> StringParam("laser_data_frame")
                    [] n = "imu_frame" -> StringParam("imu_data_frame")
                    [] OTHER -> NotSetParam]
          /\ proc = IF ConstructorExits(declare_overrides, lidar_ip, computer_ip)
                    THEN "exited" ELSE "running"
    /\ pubs = AllPubs("null")
    /\ srv = [reset |-> FALSE, get_metadata |-> FALSE]
    /\ sensor = NullSensor
    /\ tf_b = NullTfb
    /\ process_timer = NoTimer
    /\ inFlight = {}
    /\ resetCall = IdleCall
    /\ metaCall = IdleMetaCall
    /\ device \in [reachable : BOOLEAN, calib : Calibs]
    /\ completedMetadata = NoMetadata
    /\ lidarRx = <<>>
    /\ imuRx = 0
    /\ lidarDue = 0
    /\ imuDue = 0
    /\ published = AllPubs(<<>>)

\* ------------------------------------------------------------------------
\* Lifecycle transitions

Configure ==
    /\ proc = "running"
    /\ state \in {"Unconfigured", "ErrorProcessing"}
    /\ LET r == onConfigure
       IN  /\ Apply(r)
           /\ state' = IF r.raised THEN "ErrorProcessing" ELSE "Inactive"
           /\ completedMetadata' =
                  IF r.raised THEN completedMetadata
                  ELSE HandshakeMetadata(BuildConfig, device.calib)
           /\ resetCall' = IF r.sensor = sensor THEN resetCall
                           ELSE OrphanCall(resetCall)
    /\ UNCHANGED <<allow_undeclared, declared, params, inFlight, metaCall,
                   device, proc>>
    /\ UNCHANGED dataVars

Activate ==
    /\ proc = "running"
    /\ state = "Inactive"
    /\ FreshTimers # {}
    /\ Apply(onActivate)
    /\ state' = "Active"
    /\ UNCHANGED <<allow_undeclared, declared, params, inFlight, resetCall,
                   metaCall, device, completedMetadata, proc>>
    /\ UNCHANGED dataVars

Deactivate ==
    /\ proc = "running"
    /\ state = "Active"
    /\ Apply(onDeactivate)
    /\ state' = "Inactive"
    /\ UNCHANGED <<allow_undeclared, declared, params, inFlight, resetCall,
                   metaCall, device, completedMetadata, proc>>
    /\ UNCHANGED dataVars

Cleanup ==
    /\ proc = "running"
    /\ state = "Inactive"
    /\ LET r == onCleanup
       IN  /\ Apply(r)
           /\ resetCall' = IF r.sensor = sensor THEN resetCall
                           ELSE OrphanCall(resetCall)
    /\ state' = "Unconfigured"
    /\ UNCHANGED <<allow_undeclared, declared, params, inFlight, metaCall,
                   device, completedMetadata, proc>>
    /\ UNCHANGED dataVars

Shutdown ==
    /\ proc = "running"
    /\ state \in {"Unconfigured", "Inactive", "Active"}
    /\ LET r == onShutdown
       IN  /\ Apply(r)
           /\ resetCall' = IF r.sensor = sensor THEN resetCall
                           ELSE OrphanCall(resetCall)
    /\ state' = "Finalized"
    /\ UNCHANGED <<allow_undeclared, declared, params, inFlight, metaCall,
                   device, completedMetadata, proc>>
    /\ UNCHANGED dataVars

\* ------------------------------------------------------------------------
\* The periodic timer callback

\* the executor takes the armed timer and enters processData
ProcessBegin ==
    /\ proc = "running"
    /\ process_timer # NoTimer
    /\ process_timer \notin inFlight
    /\ inFlight' = inFlight \cup {process_timer}
    /\ UNCHANGED <<state, allow_undeclared, declared, params, pubs, srv,
                   sensor, tf_b, process_timer, resetCall, metaCall, device,
                   completedMetadata, proc>>
    /\ UNCHANGED dataVars

\* processData publishing a default-constructed IMU message in every cycle
processData_PublishesUnconditionally(t) ==
    /\ inFlight' = inFlight \ {t}
    /\ published' = [published EXCEPT !["imu_pub"] = Append(@, 0)]
    /\ UNCHANGED <<state, allow_undeclared, declared, params, pubs, srv,
                   sensor, tf_b, process_timer, resetCall, metaCall, device,
                   completedMetadata, proc>>

\* OusterDriver::processData returns: its body is empty, it polls nothing
\* and publishes nothing
processData(t) ==
    /\ inFlight' = inFlight \ {t}
    /\ UNCHANGED <<state, allow_undeclared, declared, params, pubs, srv,
                   sensor, tf_b, process_timer, resetCall, metaCall, device,
                   completedMetadata, proc, published>>

\* a cycle ends; in Active, a datagram that was waiting on a port is one
\* this cycle was due to poll
ProcessEnd ==
    /\ proc = "running"
    /\ \E t \in inFlight : processData(t)
    /\ lidarDue' = IF state = "Active" /\ lidarDue < Len(lidarRx)
                   THEN lidarDue + 1 ELSE lidarDue
    /\ imuDue' = IF state = "Active" /\ imuDue < imuRx
                 THEN imuDue + 1 ELSE imuDue
    /\ UNCHANGED <<lidarRx, imuRx>>

\* ------------------------------------------------------------------------
\* The reset service

\* a client sends a reset request
SendReset ==
    /\ proc = "running"
    /\ srv.reset
    /\ resetCall.st \in {"idle", "returned", "raised"}
    /\ resetCall' = [st |-> "pending", cfg |-> NoConfig]
    /\ UNCHANGED <<state, allow_undeclared, declared, params, pubs, srv,
                   sensor, tf_b, process_timer, inFlight, metaCall, device,
                   completedMetadata, proc>>
    /\ UNCHANGED dataVars

\* resetService without its isActive guard
resetServiceEnter_NoGuard ==
    IF ConfigReadThrows
    THEN [resetCall EXCEPT !.st = "raised"]
    ELSE [st |-> "running", cfg |-> BuildConfig]

\* OusterDriver::resetService up to the call of _sensor->reset: the request
\* afterwards
resetServiceEnter ==
    IF ~isActive
    THEN [resetCall EXCEPT !.st = "returned"]
    ELSE IF ConfigReadThrows
         THEN [resetCall EXCEPT !.st = "raised"]
         ELSE [st |-> "running", cfg |-> BuildConfig]

\* resetService re-running all of configure: the publishers are created anew
resetServiceReturn_Reconfigures ==
    IF HandshakeFails
    THEN [Members EXCEPT !.raised = TRUE]
    ELSE [Members EXCEPT !.sensor = SensorHandshake(sensor, resetCall.cfg),
                         !.pubs = AllPubs("inactive")]

\* resetService catching the sensor's error and dropping the handle
resetServiceReturn_DropsOnFailure ==
    IF HandshakeFails
    THEN [Members EXCEPT !.sensor = NewSensor]
    ELSE [Members EXCEPT !.sensor = SensorHandshake(sensor, resetCall.cfg)]

\* OusterDriver::resetService from the return of _sensor->reset(lidar_config):
\* the members afterwards, raised when the sensor's error leaves the callback
resetServiceReturn ==
    IF HandshakeFails
    THEN [Members EXCEPT !.raised = TRUE]
    ELSE [Members EXCEPT !.sensor = SensorHandshake(sensor, resetCall.cfg)]

ResetBegin ==
    /\ proc = "running"
    /\ resetCall.st = "pending"
    /\ IF isActive /\ ~sensor.held
       THEN proc' = "crashed" /\ UNCHANGED resetCall
       ELSE resetCall' = resetServiceEnter /\ UNCHANGED proc
    /\ UNCHANGED <<state, allow_undeclared, declared, params, pubs, srv,
                   sensor, tf_b, process_timer, inFlight, metaCall, device,
                   completedMetadata>>
    /\ UNCHANGED dataVars

ResetEnd ==
    /\ proc = "running"
    /\ resetCall.st = "running"
    /\ LET r == resetServiceReturn
       IN  /\ Apply(r)
           /\ resetCall' =
                  [resetCall EXCEPT !.st = IF r.raised THEN "raised" ELSE "returned"]
           /\ completedMetadata' =
                  IF HandshakeFails THEN completedMetadata
                  ELSE HandshakeMetadata(resetCall.cfg, device.calib)
    /\ UNCHANGED <<state, allow_undeclared, declared, params, inFlight,
                   metaCall, device, proc>>
    /\ UNCHANGED dataVars

\* _sensor->reset executing on a sensor object that was destroyed meanwhile:
\* the process crashes, or the call returns without an effect on the members
ResetOrphaned ==
    /\ proc = "running"
    /\ resetCall.st = "orphaned"
    /\ \/ proc' = "crashed" /\ UNCHANGED resetCall
       \/ resetCall' = [resetCall EXCEPT !.st = "returned"] /\ UNCHANGED proc
    /\ UNCHANGED <<state, allow_undeclared, declared, params, pubs, srv,
                   sensor, tf_b, process_timer, inFlight, metaCall, device,
                   completedMetadata>>
    /\ UNCHANGED dataVars

\* ------------------------------------------------------------------------
\* The get_metadata service

\* a client sends a get_metadata request; the response starts out empty
SendGetMetadata ==
    /\ proc = "running"
    /\ srv.get_metadata
    /\ metaCall.st \in {"idle", "returned"}
    /\ metaCall' = [st |-> "pending", response |-> EmptyMetadataMsg]
    /\ UNCHANGED <<state, allow_undeclared, declared, params, pubs, srv,
                   sensor, tf_b, process_timer, inFlight, resetCall, device,
                   completedMetadata, proc>>
    /\ UNCHANGED dataVars

\* getMetadata reporting the configured lidar mode instead of the sensor's
getMetadata_ModeFromParameter ==
    IF ~isActive
    THEN [metaCall EXCEPT !.st = "returned"]
    ELSE [st |-> "returned",
          response |->
              [MetadataToMsg(SensorGetMetadata(sensor))
                  EXCEPT !.lidar_mode = params["lidar_mode"].s]]

\* OusterDriver::getMetadata: the request afterwards
getMetadata ==
    IF ~isActive
    THEN [metaCall EXCEPT !.st = "returned"]
    ELSE [st |-> "returned",
          response |-> MetadataToMsg(SensorGetMetadata(sensor))]

GetMetadata ==
    /\ proc = "running"
    /\ metaCall.st = "pending"
    /\ IF isActive /\ ~sensor.held
       THEN proc' = "crashed" /\ UNCHANGED metaCall
       ELSE metaCall' = getMetadata /\ UNCHANGED proc
    /\ UNCHANGED <<state, allow_undeclared, declared, params, pubs, srv,
                   sensor, tf_b, process_timer, inFlight, resetCall, device,
                   completedMetadata>>
    /\ UNCHANGED dataVars

\* ------------------------------------------------------------------------
\* Environment

\* rclcpp set_parameter from outside: refused for an undeclared name unless
\* the node allows undeclared parameters, which then declares it
SetParameter ==
    /\ proc = "running"
    /\ \E n \in TransformParamNames \cup {"lidar_mode"} :
          /\ n \in declared \/ allow_undeclared
          /\ \E v \in (IF n = "lidar_mode" THEN LidarModes
                       ELSE {CustomFrames[n]}) :
                /\ params[n] # StringParam(v)
                /\ params' = [params EXCEPT ![n] = StringParam(v)]
          /\ declared' = declared \cup {n}
    /\ UNCHANGED <<state, allow_undeclared, pubs, srv, sensor, tf_b,
                   process_timer, inFlight, resetCall, metaCall, device,
                   completedMetadata, proc>>
    /\ UNCHANGED dataVars

\* the physical sensor goes away, comes back, or is recalibrated
DeviceChange ==
    /\ proc = "running"
    /\ \E d \in [reachable : BOOLEAN, calib : Calibs] :
          /\ d # device
          /\ device' = d
    /\ UNCHANGED <<state, allow_undeclared, declared, params, pubs, srv,
                   sensor, tf_b, process_timer, inFlight, resetCall, metaCall,
                   completedMetadata, proc>>
    /\ UNCHANGED dataVars

\* ------------------------------------------------------------------------

Next ==
    \/ Configure
    \/ Activate
    \/ Deactivate
    \/ Cleanup
    \/ Shutdown
    \/ ProcessBegin
    \/ ProcessEnd
    \/ SendReset
    \/ ResetBegin
    \/ ResetEnd
    \/ ResetOrphaned
    \/ SendGetMetadata
    \/ GetMetadata
    \/ SetParameter
    \/ DeviceChange

Spec == Init /\ [][Next]_vars

\* ------------------------------------------------------------------------
\* The data path: the connected sensor sends datagrams

\* the sockets are open once the sensor has been configured
Connected == sensor.held /\ sensor.config # NoConfig

\* a lidar datagram (one column) arrives on lidar_port
LidarArrives ==
    /\ proc = "running"
    /\ Connected
    /\ Len(lidarRx) + imuRx < MaxDatagrams
    /\ \E c \in Columns : lidarRx' = Append(lidarRx, c)
    /\ UNCHANGED <<state, allow_undeclared, declared, params, pubs, srv,
                   sensor, tf_b, process_timer, inFlight, resetCall, metaCall,
                   device, completedMetadata, proc, imuRx, lidarDue, imuDue,
                   published>>

\* an IMU datagram arrives on imu_port
ImuArrives ==
    /\ proc = "running"
    /\ Connected
    /\ Len(lidarRx) + imuRx < MaxDatagrams
    /\ imuRx' = imuRx + 1
    /\ UNCHANGED <<state, allow_undeclared, declared, params, pubs, srv,
                   sensor, tf_b, process_timer, inFlight, resetCall, metaCall,
                   device, completedMetadata, proc, lidarRx, lidarDue, imuDue,
                   published>>

\* a node that can be configured: undeclared parameters allowed, both
\* addresses given, the sensor reachable
DataInit ==
    /\ Init
    /\ allow_undeclared
    /\ params["lidar_ip"].type = "STRING"
    /\ params["computer_ip"].type = "STRING"
    /\ device = [reachable |-> TRUE, calib |-> 1]
    /\ proc = "running"

DataNext ==
    \/ Configure
    \/ Activate
    \/ Deactivate
    \/ Cleanup
    \/ Shutdown
    \/ ProcessBegin
    \/ ProcessEnd
    \/ SetParameter
    \/ LidarArrives
    \/ ImuArrives

\* lifecycle, timer and data path of a node with a sending sensor
DataSpec == DataInit /\ [][DataNext]_vars

\* ------------------------------------------------------------------------
\* Properties

Released ==
    /\ ~sensor.held
    /\ \A p \in PubNames : pubs[p] = "null"
    /\ ~tf_b.held
    /\ process_timer = NoTimer

\* C1: outside Active, the step in which resetService or getMetadata serves
\* a pending request ends the request as returned (no error raised, the
\* sensor not entered, the response left empty) and leaves the lifecycle
\* state, the sensor, the Metadata, the publishers, the broadcaster and the
\* timer unchanged.
C1_ServicesSilentUnlessActive ==
    [][LET resetServed == resetCall.st = "pending" /\ resetCall' # resetCall
           metaServed == metaCall.st = "pending" /\ metaCall' # metaCall
       IN  (state # "Active" /\ (resetServed \/ metaServed)) =>
              /\ resetServed => resetCall' = [resetCall EXCEPT !.st = "returned"]
              /\ metaServed =>
                    metaCall' = [st |-> "returned", response |-> EmptyMetadataMsg]
              /\ proc' = "running"
              /\ UNCHANGED <<state, sensor, completedMetadata, pubs, tf_b,
                             process_timer, inFlight, srv>>]_vars

\* both services have answered a request in a state other than Active, after
\* a configure had completed
C1_Witness ==
    /\ state \in {"Unconfigured", "Inactive", "Finalized", "ErrorProcessing"}
    /\ completedMetadata # NoMetadata
    /\ resetCall.st = "returned"
    /\ metaCall = [st |-> "returned", response |-> EmptyMetadataMsg]

\* C2: a processData invocation starts only in the lifecycle state Active.
C2_ProcessDataOnlyWhileActive ==
    [][(\E t \in TimerIds : t \notin inFlight /\ t \in inFlight') =>
          state = "Active"]_vars

\* C3: in Finalized the sensor handle, the five publishers, the transform
\* broadcaster and the periodic timer are all absent.
C3_FinalizedReleasesAll == state = "Finalized" => Released

\* the two static transforms the configured frame identifiers call for
ConfiguredTransforms(mdata) ==
    {TransformToMsg(mdata.lidar_to_sensor_transform,
                    params["sensor_frame"].s, params["laser_frame"].s),
     TransformToMsg(mdata.imu_to_sensor_transform,
                    params["sensor_frame"].s, params["imu_frame"].s)}

\* C4: a configure from Unconfigured with lidar_ip and computer_ip set and a
\* reachable sensor ends in Inactive with one announcement of exactly the two
\* transforms sensor_frame -> laser_frame and sensor_frame -> imu_frame of
\* the Metadata.
C4_ConfigureAnnouncesTransformsOnce ==
    [][(/\ state = "Unconfigured"
        /\ state' \in {"Inactive", "ErrorProcessing"}
        /\ params["lidar_ip"].type = "STRING"
        /\ params["computer_ip"].type = "STRING"
        /\ device.reachable) =>
          /\ state' = "Inactive"
          /\ Len(tf_b'.sent) = 1
          /\ Len(tf_b'.sent[1]) = 2
          /\ {tf_b'.sent[1][1], tf_b'.sent[1][2]} =
                 ConfiguredTransforms(sensor'.metadata)]_vars

\* C5: deactivate disarms the five publishers and clears the timer and leaves
\* the sensor and its Metadata as they were; in Inactive and in Active the
\* sensor handle is held and its Metadata is that of the last completed
\* configure or reset.
C5_DeactivateKeepsSensor ==
    /\ [](state \in {"Inactive", "Active"} =>
             sensor.held /\ sensor.metadata = completedMetadata)
    /\ [][(state = "Active" /\ state' = "Inactive") =>
             /\ \A p \in PubNames : pubs'[p] = "inactive"
             /\ process_timer' = NoTimer
             /\ sensor' = sensor
             /\ completedMetadata' = completedMetadata]_vars

\* deactivated after get_metadata was answered in Active: the sensor is
\* still connected with the Metadata that was reported
C5_Witness ==
    /\ state = "Inactive"
    /\ process_timer = NoTimer
    /\ \A p \in PubNames : pubs[p] = "inactive"
    /\ metaCall.st = "returned"
    /\ metaCall.response # EmptyMetadataMsg
    /\ sensor.held
    /\ MetadataToMsg(sensor.metadata) = metaCall.response

\* C6: there is no state in which the lifecycle is Inactive while a
\* processData invocation is executing.
C6_NoProcessDataInFlightWhenInactive == state = "Inactive" => inFlight = {}

C8_ResetKeepsActive ==
    [][/\ (state = "Active" /\ resetCall.st = "pending" /\ resetCall' # resetCall) =>
             /\ resetCall' = [st |-> "running", cfg |-> BuildConfig]
             /\ UNCHANGED <<state, pubs, process_timer, inFlight, sensor,
                            tf_b, srv>>
       /\ (resetCall.st = "running" /\ resetCall'.st = "returned") =>
             /\ sensor'.held
             /\ sensor'.config = resetCall.cfg
             /\ sensor'.metadata = HandshakeMetadata(resetCall.cfg, device.calib)
             /\ completedMetadata' = sensor'.metadata
             /\ UNCHANGED <<state, pubs, process_timer, inFlight, tf_b, srv>>
             /\ state = "Active" =>
                   /\ \A p \in PubNames : pubs'[p] = "active"
                   /\ process_timer' # NoTimer]_vars

\* a reset has completed in Active with another lidar mode than the sensor
\* reported to get_metadata before: the sensor reports the new lidar mode,
\* the publishers and the timer are armed
C8_Witness ==
    /\ state = "Active"
    /\ metaCall.st = "returned"
    /\ metaCall.response.lidar_mode = "512x10"
    /\ resetCall.st = "returned"
    /\ resetCall.cfg # NoConfig
    /\ sensor.config = resetCall.cfg
    /\ sensor.metadata.lidar_mode = "1024x10"
    /\ process_timer # NoTimer
    /\ \A p \in PubNames : pubs[p] = "active"

C10_UnconfiguredHoldsNothing ==
    /\ [](state = "Unconfigured" => Released)
    /\ [][(state = "Inactive" /\ state' = "Unconfigured") =>
             /\ ~sensor'.held
             /\ sensor'.metadata = NoMetadata
             /\ \A p \in PubNames : pubs'[p] = "null"
             /\ ~tf_b'.held]_vars

\* Unconfigured again after a completed configure
C10_Witness ==
    /\ state = "Unconfigured"
    /\ completedMetadata # NoMetadata
    /\ srv.reset
    /\ Released

\* C11: with lidar_ip or computer_ip unset the node is never Inactive or
\* Active and holds no sensor, and once configure was attempted the process
\* has terminated.
C11_MissingAddressTerminates ==
    (params["lidar_ip"].type = "NOT_SET" \/ params["computer_ip"].type = "NOT_SET") =>
        /\ state \notin {"Inactive", "Active"}
        /\ ~sensor.held
        /\ state = "ErrorProcessing" => proc = "exited"

\* FrameAssembler::ingest over a sequence of columns: a column whose index is
\* below the previous one, or is the starting index 0, closes the buffer as a
\* Frame and starts the next; the Frames closed so far
RECURSIVE Assemble(_, _, _)
Assemble(cols, buffer, frames) ==
    IF cols = <<>> THEN frames
    ELSE LET c == Head(cols)
             wraps == buffer # <<>> /\ (c < buffer[Len(buffer)] \/ c = 0)
         IN  IF wraps
             THEN Assemble(Tail(cols), <<c>>, Append(frames, buffer))
             ELSE Assemble(Tail(cols), Append(buffer, c), frames)

FramesOf(cols) == Assemble(cols, <<>>, <<>>)

\* the lidar columns the completed cycles in Active were due to poll
DueColumns == SubSeq(lidarRx, 1, lidarDue)

\* C12: every IMU datagram a cycle in Active was due to poll has yielded one
\* message on the IMU publisher, and every Frame completed by the columns due
\* has yielded one message on each of the four frame publishers.
C12_DueDatagramsPublished ==
    /\ Len(published["imu_pub"]) = imuDue
    /\ \A p \in FramePubNames : Len(published[p]) = Len(FramesOf(DueColumns))

\* C13: when the columns due never repeat an index (each one increases or
\* wraps around), the Frames handed to the frame publishers are, in order,
\* the runs of columns between two wraparounds.
C13_OneFramePerWraparound ==
    (\A i \in 1..(Len(DueColumns) - 1) : DueColumns[i + 1] # DueColumns[i]) =>
        \A p \in FramePubNames : published[p] = FramesOf(DueColumns)

\* C14: a cycle that ends with no datagram waiting changes nothing but the
\* set of executing cycles; as long as no datagram was received nothing is
\* published on any of the five publishers, and in Inactive and Active the
\* sensor stays connected.
C14_IdleCycleChangesNothing ==
    /\ []((lidarRx = <<>> /\ imuRx = 0) =>
             /\ \A p \in PubNames : published[p] = <<>>
             /\ state \in {"Inactive", "Active"} => Connected)
    /\ [][((\E t \in inFlight : t \notin inFlight')
           /\ Len(lidarRx) = lidarDue /\ imuRx = imuDue) =>
             UNCHANGED <<state, pubs, srv, sensor, tf_b, process_timer,
                         published, params, declared, completedMetadata,
                         lidarRx, imuRx, lidarDue, imuDue, proc>>]_vars

\* activated a second time, on a second timer, because a cycle of the first
\* round was still executing at that time; that cycle has ended since, no
\* datagram was received, nothing was published, the sensor is connected
C14_Witness ==
    /\ state = "Active"
    /\ process_timer = 2
    /\ inFlight = {}
    /\ lidarRx = <<>>
    /\ imuRx = 0
    /\ \A p \in PubNames : published[p] = <<>>
    /\ Connected

\* one of the parameter reads of onConfigure, the handshake, or one of the
\* reads of broadcastStaticTransforms raises
ConfigureRaises ==
    \/ ConfigReadThrows
    \/ HandshakeFails
    \/ \E n \in TransformParamNames : ThrowsAsString(n)

\* C15: a configure that raises leaves the driver in ErrorProcessing; there
\* no timer is armed and no processData cycle starts, and the only state the
\* driver leaves ErrorProcessing for is Inactive, by a configure from outside
\* that does not raise and connects the sensor.
C15_ErrorProcessingUntilConfigure ==
    /\ [](state = "ErrorProcessing" => process_timer = NoTimer)
    /\ [][(state = "Unconfigured" /\ state' \notin {"Unconfigured", "Finalized"}) =>
             state' = IF ConfigureRaises THEN "ErrorProcessing" ELSE "Inactive"]_vars
    /\ [][state = "ErrorProcessing" =>
             /\ state' \in {"ErrorProcessing", "Inactive"}
             /\ state' = "Inactive" => (~ConfigureRaises /\ Connected')
             /\ inFlight' \subseteq inFlight]_vars

\* configure got past the parameter reads, created the sensor handle, and
\* raised at the handshake
C15_Witness ==
    /\ state = "ErrorProcessing"
    /\ sensor.held
    /\ ~Connected
    /\ \A p \in PubNames : pubs[p] = "inactive"

\* C16: the five publishers are all armed in Active and none of them is
\* armed in any other state.
C16_PublishersArmedIffActive ==
    /\ state = "Active" => \A p \in PubNames : pubs[p] = "active"
    /\ state # "Active" => \A p \in PubNames : pubs[p] # "active"

\* C17: every parameter name read by onConfigure, broadcastStaticTransforms
\* and resetService is a declared name of the node.
C17_ReadNamesDeclared == \A n \in ReadNames : n \in declared

\* C18: in Inactive and Active the five publishers are present, in Active the
\* sensor handle is present, and no resetService call is left executing
\* _sensor->reset on a handle that was released under it.
C18_NoReleasedDereference ==
    /\ state \in {"Inactive", "Active"} => \A p \in PubNames : pubs[p] # "null"
    /\ state = "Active" => sensor.held
    /\ resetCall.st # "orphaned"

\* C19: at most one processData timer is alive (armed, or executing its
\* callback) at any time.
C19_AtMostOneTimer ==
    Cardinality(inFlight \cup (IF process_timer = NoTimer THEN {}
                               ELSE {process_timer})) <= 1

====
